---- MODULE Spec2Model ----
(***************************************************************************)
(* LogsService of guy0090/lostarklogs (backend/src/services).              *)
(*                                                                         *)
(* Two revisions of the service are in the repository:                     *)
(*   src/unnamed/part_000                      (cached, paginated search)  *)
(*   src/backend/src/services/logs.service.ts  (earlier revision)          *)
(* createLog, getLogById and deleteAllUserLogs are the same code in both.  *)
(* deleteLog differs (order of the store delete and the cache eviction):   *)
(* both are modelled, deleteLog_* from part_000 and svcDeleteLog_* from    *)
(* logs.service.ts.  getFilteredLogs differs too (logs.service.ts has no   *)
(* cache and no pagination, a fixed sort and a limit stage): both are      *)
(* modelled, getFilteredLogs_* from part_000 and svcGetFilteredLogs_* from *)
(* logs.service.ts.  validateLog and getUniqueEntities are the same code.  *)
(*                                                                         *)
(* The Persistence Store (mongoose model) is `store`, the Cache Client     *)
(* (RedisService) is `cache`.  Every awaited store or cache call is one    *)
(* step of the calling operation; the code between two awaits runs with    *)
(* the step that precedes it.  A call that is not awaited is put in        *)
(* `pending` and takes effect, or fails, at any later moment.              *)
(***************************************************************************)
EXTENDS Integers, Sequences, FiniteSets, TLC

VARIABLES
    store,      \* the documents of logsModel (this.logs)
    nextId,     \* the next _id the store hands out
    cache,      \* RedisService: key -> serialized text, by key prefix
    pending,    \* cache writes started without await, not yet applied
    calls,      \* per caller: the operation it runs, its locals, its result
    ncalls,     \* operations started so far
    created,    \* history: every document the store ever held
    removed,    \* history: ids of documents removed from the store
    deleted     \* history: ids of completed deleteLog calls, by what ran beside them

vars == <<store, nextId, cache, pending, calls, ncalls, created, removed, deleted>>

-----------------------------------------------------------------------------
(* Bounds *)

MaxLogs == 2

MaxCalls == 3

\* Logs in the store when the search specification starts.
MaxStored == 3

\* Operations started in a behaviour of the search specification.
MaxSearches == 2

\* Page sizes 1 .. MaxPageSize, requested pages -MaxPage .. MaxPage.
MaxPageSize == 2

MaxPage == 2

Callers == {"c1", "c2"}

Users == {"u1", "u2"}

\* The id no document ever has (a caller may ask for an id that matches nothing).
\* Ids the store hands out are fresh, so a caller can only name this one or an
\* id the store has already handed out.
UnknownId == 0

KnownIds == UnknownId .. (nextId - 1)

-----------------------------------------------------------------------------
(* Values *)

Null == [form |-> "null"]

\* An entity of a log: logs.interface Entity as the service reads it.
Entity(type, npcId, classId, level, gearLevel) ==
    [type |-> type, npcId |-> npcId, classId |-> classId, level |-> level, gearLevel |-> gearLevel]

\* The logs of the model: two creators, two logs of equal dps, bosses and
\* guardians of two npcIds.
Catalogue ==
    << [creator |-> "u1", dps |-> 5, entities |-> <<Entity("PLAYER", 0, 10, 50, 1000), Entity("BOSS", 1, 0, 60, 1500)>>],
       [creator |-> "u2", dps |-> 7, entities |-> <<Entity("PLAYER", 0, 20, 60, 1400), Entity("GUARDIAN", 2, 0, 60, 1500)>>],
       [creator |-> "u1", dps |-> 5, entities |-> <<Entity("PLAYER", 0, 10, 60, 1500), Entity("BOSS", 1, 0, 60, 1500),
                                                    Entity("GUARDIAN", 2, 0, 60, 1500)>>] >>

\* The log bodies createLog is called with.
Bodies == {Catalogue[1], Catalogue[2]}

\* The document this.logs.create(log) stores: the body with a fresh _id and the
\* creation timestamp (ObjectId and Date values: form "doc").
NewDoc(body, id) ==
    [form |-> "doc", id |-> id, creator |-> body.creator, createdAt |-> id,
     dps |-> body.dps, entities |-> body.entities]

\* What a value looks like after JSON.stringify and JSON.parse: ObjectId and
\* Date fields have become strings (form "json"); the other fields are kept.
PlainDoc(v) ==
    IF v.form = "doc" THEN [v EXCEPT !.form = "json"] ELSE v

Plain(v) ==
    IF v.form = "list" THEN [v EXCEPT !.items = [i \in DOMAIN v.items |-> PlainDoc(v.items[i])]]
    ELSE PlainDoc(v)

JSONstringify(v) == [form |-> "text", json |-> Plain(v)]

\* A JavaScript array as a value that is serialized (the ID-group list).
List(items) == [form |-> "list", items |-> items]

JSONparse(t) == t.json

\* new Exception(status, message)
Exception(status, message) == [form |-> "exception", status |-> status, message |-> message]

\* catch (err) { throw new Exception(400, err.message) }
Rethrow400(err) == Exception(400, err.message)

\* The error a failing store or cache call throws.
IoError == [form |-> "error", message |-> "io failure"]

\* new LogObject(log), returned to the caller
LogObject(log) == [form |-> "LogObject", log |-> log]

\* The result of an operation that returns nothing (Promise<void>).
Void == [form |-> "void"]

-----------------------------------------------------------------------------
(* Cache Client: RedisService.get / set / del on keys log:<id> *)

LogKey(id) == id

RedisGet(c, part, key) ==
    IF key \in DOMAIN c[part] THEN c[part][key] ELSE Null

RedisSet(c, part, key, val) ==
    [c EXCEPT ![part] = [k \in (DOMAIN c[part]) \cup {key} |-> IF k = key THEN val ELSE c[part][k]]]

RedisDel(c, part, key) ==
    [c EXCEPT ![part] = [k \in (DOMAIN c[part]) \ {key} |-> c[part][k]]]

EmptyMap == [k \in {} |-> Null]

-----------------------------------------------------------------------------
(* Persistence Store *)

\* this.logs.findById(id).lean()
FindById(id) ==
    IF \E d \in store : d.id = id THEN CHOOSE d \in store : d.id = id ELSE Null

StoreIds == {d.id : d \in store}

-----------------------------------------------------------------------------
(* LogFilter (logs.interface), as getFilteredLogs reads it.  An optional     *)
(* field is a sequence: << >> when it is absent, <<value>> when it is given. *)

DefaultFilter ==
    [bosses |-> << >>, classes |-> << >>, range |-> << >>, level |-> <<0, 60>>,
     gearLevel |-> <<302, 1625>>, partyDps |-> 0, key |-> << >>, sort |-> << >>, page |-> << >>]

-----------------------------------------------------------------------------
(* Callers *)

IdleCall ==
    [op |-> "idle", pc |-> "idle", id |-> UnknownId, byPassCache |-> FALSE, userId |-> "none",
     io |-> "ok", log |-> Null, alone |-> FALSE, afterClean |-> FALSE, storeDeleted |-> FALSE,
     evictTried |-> FALSE, evicted |-> FALSE, noCreate |-> FALSE, cached |-> Null, result |-> Null,
     filter |-> DefaultFilter, pageSize |-> 0, aggrPipeline |-> << >>, hash |-> Null,
     list |-> << >>, foundIds |-> << >>, count |-> 0, pages |-> 0, page |-> 0,
     types |-> << >>, bosses |-> {}, afterCreate |-> FALSE,
     errors |-> << >>, env |-> "production"]

Running(c) == calls[c].pc \notin {"idle", "done"}

\* An operation on log id is in flight: a caller is inside getLogById, deleteLog
\* or createLog for it, or a write of log:<id> is still pending.
InFlight(id, except) ==
    \/ \E c \in Callers \ except : Running(c) /\ calls[c].id = id /\ calls[c].op # "idle"
    \/ \E w \in pending : w.part = "log" /\ w.key = LogKey(id)

\* A createLog of id, or the cache write it started, is in flight.
CreateInFlight(id) ==
    \/ \E c \in Callers : Running(c) /\ calls[c].op = "createLog" /\ calls[c].id = id
    \/ \E w \in pending : w.part = "log" /\ w.key = LogKey(id)

\* createLog has returned the log id: the store has handed the id out and no
\* createLog of it is still running.
CreateReturned(id) ==
    /\ \E d \in created : d.id = id
    /\ ~\E c \in Callers : Running(c) /\ calls[c].op = "createLog" /\ calls[c].id = id

\* Another operation on id begins: a deleteLog(id) in flight is no longer alone.
Disturbed(cs, id) ==
    [c \in Callers |->
        IF cs[c].op \in {"deleteLog", "svcDeleteLog"} /\ cs[c].pc \notin {"idle", "done"} /\ cs[c].id = id
        THEN [cs[c] EXCEPT !.alone = FALSE] ELSE cs[c]]

CanStart(c) == calls[c].pc = "idle" /\ ncalls < MaxCalls

Finish(call, result) == [call EXCEPT !.pc = "done", !.result = result]

\* The caller takes the result; its slot is free again.
Return(c) ==
    /\ calls[c].pc = "done"
    /\ calls' = [calls EXCEPT ![c] = IdleCall]
    /\ UNCHANGED <<store, nextId, cache, pending, ncalls, created, removed, deleted>>

-----------------------------------------------------------------------------
(* createLog *)

\* createLog_create that starts the cache write together with the store create.
createLog_create_cachesFirst(c, body, outcome) ==
    /\ CanStart(c)
    /\ nextId <= MaxLogs
    /\ ncalls' = ncalls + 1
    /\ pending' = pending \cup {[part |-> "log", key |-> LogKey(nextId), val |-> JSONstringify(NewDoc(body, nextId))]}
    /\ IF outcome = "ok"
       THEN LET doc == NewDoc(body, nextId) IN
            /\ store' = store \cup {doc}
            /\ created' = created \cup {doc}
            /\ nextId' = nextId + 1
            /\ calls' = [calls EXCEPT ![c] =
                            [IdleCall EXCEPT !.op = "createLog", !.pc = "created", !.id = doc.id, !.log = doc]]
       ELSE /\ UNCHANGED <<store, created, nextId>>
            /\ calls' = [calls EXCEPT ![c] =
                            Finish([IdleCall EXCEPT !.op = "createLog", !.io = outcome],
                                   Rethrow400(IF outcome = "fail" THEN IoError
                                              ELSE Exception(500, "Error creating log")))]
    /\ UNCHANGED <<cache, removed, deleted>>

\* const created = await this.logs.create(log); if (!created) throw ...
\* outcome: the store inserts the document ("ok"), the call throws ("fail"),
\* or it resolves to nothing ("none").
createLog_create(c, body, outcome) ==
    /\ CanStart(c)
    /\ nextId <= MaxLogs
    /\ ncalls' = ncalls + 1
    /\ IF outcome = "ok"
       THEN LET doc == NewDoc(body, nextId) IN
            /\ store' = store \cup {doc}
            /\ created' = created \cup {doc}
            /\ nextId' = nextId + 1
            /\ calls' = [calls EXCEPT ![c] =
                            [IdleCall EXCEPT !.op = "createLog", !.pc = "created", !.id = doc.id, !.log = doc]]
       ELSE /\ UNCHANGED <<store, created, nextId>>
            /\ calls' = [calls EXCEPT ![c] =
                            Finish([IdleCall EXCEPT !.op = "createLog", !.io = outcome],
                                   Rethrow400(IF outcome = "fail" THEN IoError
                                              ELSE Exception(500, "Error creating log")))]
    /\ UNCHANGED <<cache, pending, removed, deleted>>

\* RedisService.set(`log:${created._id}`, JSON.stringify(created), 'PX', ms('5m'));
\* (not awaited)  return new LogObject(created);
createLog_return(c) ==
    /\ calls[c].op = "createLog" /\ calls[c].pc = "created"
    /\ pending' = pending \cup {[part |-> "log", key |-> LogKey(calls[c].id), val |-> JSONstringify(calls[c].log)]}
    /\ calls' = [calls EXCEPT ![c] = Finish(@, LogObject(calls[c].log))]
    /\ UNCHANGED <<store, nextId, cache, ncalls, created, removed, deleted>>

\* A cache write that was not awaited reaches the cache.
pendingSet(w) ==
    /\ w \in pending
    /\ pending' = pending \ {w}
    /\ cache' = RedisSet(cache, w.part, w.key, w.val)
    /\ UNCHANGED <<store, nextId, calls, ncalls, created, removed, deleted>>

\* A cache write that was not awaited fails; nobody observes the rejection.
pendingFail(w) ==
    /\ w \in pending
    /\ pending' = pending \ {w}
    /\ UNCHANGED <<store, nextId, cache, calls, ncalls, created, removed, deleted>>

\* An entry reaches its expiry ('PX', ms('5m')) and is gone.
expire(part, key) ==
    /\ key \in DOMAIN cache[part]
    /\ cache' = RedisDel(cache, part, key)
    /\ UNCHANGED <<store, nextId, pending, calls, ncalls, created, removed, deleted>>

-----------------------------------------------------------------------------
(* getLogById *)

\* getLogById_get with the bypass flag ignored: if (cached) { ... }
getLogById_get_ignoresBypass(c, id, byPassCache, io) ==
    /\ CanStart(c)
    /\ id \in KnownIds
    /\ ncalls' = ncalls + 1
    /\ LET call == [IdleCall EXCEPT !.op = "getLogById", !.id = id, !.byPassCache = byPassCache,
                                    !.io = io, !.afterClean = (id \in deleted.alone)]
           cached == RedisGet(cache, "log", LogKey(id))
       IN calls' = [Disturbed(calls, id) EXCEPT ![c] =
              IF io = "fail" THEN Finish(call, Rethrow400(IoError))
              ELSE IF cached # Null
                   THEN Finish([call EXCEPT !.cached = cached, !.log = JSONparse(cached)],
                               LogObject(JSONparse(cached)))
                   ELSE [call EXCEPT !.cached = cached, !.pc = "find"]]
    /\ UNCHANGED <<store, nextId, cache, pending, created, removed, deleted>>

\* const cached = await RedisService.get(`log:${id}`);
\* if (cached && !byPassCache) { log = JSON.parse(cached); return new LogObject(log) }
getLogById_get(c, id, byPassCache, io) ==
    /\ CanStart(c)
    /\ id \in KnownIds
    /\ ncalls' = ncalls + 1
    /\ LET call == [IdleCall EXCEPT !.op = "getLogById", !.id = id, !.byPassCache = byPassCache,
                                    !.io = io, !.afterClean = (id \in deleted.alone)]
           cached == RedisGet(cache, "log", LogKey(id))
       IN calls' = [Disturbed(calls, id) EXCEPT ![c] =
              IF io = "fail" THEN Finish(call, Rethrow400(IoError))
              ELSE IF cached # Null /\ ~byPassCache
                   THEN Finish([call EXCEPT !.cached = cached, !.log = JSONparse(cached)],
                               LogObject(JSONparse(cached)))
                   ELSE [call EXCEPT !.cached = cached, !.pc = "find"]]
    /\ UNCHANGED <<store, nextId, cache, pending, created, removed, deleted>>

\* getLogById_find without the throw: a missing record is cached and returned.
getLogById_find_noThrow(c, io) ==
    /\ calls[c].op = "getLogById" /\ calls[c].pc = "find"
    /\ calls' = [calls EXCEPT ![c] =
              IF io = "fail" THEN Finish([@ EXCEPT !.io = io], Rethrow400(IoError))
              ELSE [@ EXCEPT !.pc = "set", !.log = FindById(calls[c].id)]]
    /\ UNCHANGED <<store, nextId, cache, pending, ncalls, created, removed, deleted>>

\* log = await this.logs.findById(id).lean();
\* if (!log) throw new Exception(500, 'Error finding log');
getLogById_find(c, io) ==
    /\ calls[c].op = "getLogById" /\ calls[c].pc = "find"
    /\ LET log == FindById(calls[c].id) IN
       calls' = [calls EXCEPT ![c] =
              IF io = "fail" THEN Finish([@ EXCEPT !.io = io], Rethrow400(IoError))
              ELSE IF log = Null
                   THEN Finish(@, Rethrow400(Exception(500, "Error finding log")))
                   ELSE [@ EXCEPT !.pc = "set", !.log = log]]
    /\ UNCHANGED <<store, nextId, cache, pending, ncalls, created, removed, deleted>>

\* await RedisService.set(`log:${id}`, JSON.stringify(log), 'PX', ms('5m'));
\* return new LogObject(log);
getLogById_set(c, io) ==
    /\ calls[c].op = "getLogById" /\ calls[c].pc = "set"
    /\ IF io = "fail"
       THEN /\ calls' = [calls EXCEPT ![c] = Finish([@ EXCEPT !.io = io], Rethrow400(IoError))]
            /\ UNCHANGED cache
       ELSE /\ cache' = RedisSet(cache, "log", LogKey(calls[c].id), JSONstringify(calls[c].log))
            /\ calls' = [calls EXCEPT ![c] = Finish(@, LogObject(calls[c].log))]
    /\ UNCHANGED <<store, nextId, pending, ncalls, created, removed, deleted>>

-----------------------------------------------------------------------------
(* deleteLog, src/unnamed/part_000 *)

\* The bookkeeping of a deleteLog that ran to its end:
\*   alone    - no other operation on the id was in flight during it;
\*   noCreate - no createLog of the id, and no cache write createLog started,
\*              was in flight during it (reads of the id may have been).
Completed(call, id) ==
    [alone |-> IF call.alone THEN deleted.alone \cup {id} ELSE deleted.alone,
     noCreate |-> IF call.noCreate THEN deleted.noCreate \cup {id} ELSE deleted.noCreate]

\* await this.logs.findByIdAndDelete(id);
deleteLog_delete(c, id, io) ==
    /\ CanStart(c)
    /\ id \in KnownIds
    /\ ncalls' = ncalls + 1
    /\ LET call == [IdleCall EXCEPT !.op = "deleteLog", !.id = id, !.io = io,
                                    !.alone = ~InFlight(id, {c}), !.noCreate = ~CreateInFlight(id),
                                    !.afterCreate = CreateReturned(id)]
       IN IF io = "fail"
          THEN /\ calls' = [Disturbed(calls, id) EXCEPT ![c] = Finish(call, Rethrow400(IoError))]
               /\ UNCHANGED <<store, removed>>
          ELSE /\ store' = {d \in store : d.id # id}
               /\ removed' = removed \cup (StoreIds \cap {id})
               /\ calls' = [Disturbed(calls, id) EXCEPT ![c] =
                               [call EXCEPT !.pc = "get", !.storeDeleted = TRUE]]
    /\ UNCHANGED <<nextId, cache, pending, created, deleted>>

\* const logged = await RedisService.get(`log:${id}`);
\* if (logged) ... else return;
deleteLog_get(c, io) ==
    /\ calls[c].op = "deleteLog" /\ calls[c].pc = "get"
    /\ LET logged == RedisGet(cache, "log", LogKey(calls[c].id))
           call == [calls[c] EXCEPT !.io = io, !.evictTried = TRUE]
       IN IF io = "fail"
          THEN /\ calls' = [calls EXCEPT ![c] = Finish(call, Rethrow400(IoError))]
               /\ UNCHANGED deleted
          ELSE IF logged # Null
               THEN /\ calls' = [calls EXCEPT ![c] = [call EXCEPT !.pc = "del"]]
                    /\ UNCHANGED deleted
               ELSE /\ calls' = [calls EXCEPT ![c] = Finish(call, Void)]
                    /\ deleted' = Completed(call, call.id)
    /\ UNCHANGED <<store, nextId, cache, pending, ncalls, created, removed>>

\* deleteLog_del that returns without evicting the entry.
deleteLog_del_noEvict(c, io) ==
    /\ calls[c].op = "deleteLog" /\ calls[c].pc = "del"
    /\ calls' = [calls EXCEPT ![c] = Finish([@ EXCEPT !.io = io, !.evicted = TRUE], Void)]
    /\ deleted' = Completed(calls[c], calls[c].id)
    /\ UNCHANGED <<store, nextId, cache, pending, ncalls, created, removed>>

\* await RedisService.del(`log:${id}`); return;
deleteLog_del(c, io) ==
    /\ calls[c].op = "deleteLog" /\ calls[c].pc = "del"
    /\ IF io = "fail"
       THEN /\ calls' = [calls EXCEPT ![c] = Finish([@ EXCEPT !.io = io], Rethrow400(IoError))]
            /\ UNCHANGED <<cache, deleted>>
       ELSE /\ cache' = RedisDel(cache, "log", LogKey(calls[c].id))
            /\ calls' = [calls EXCEPT ![c] = Finish([@ EXCEPT !.evicted = TRUE], Void)]
            /\ deleted' = Completed(calls[c], calls[c].id)
    /\ UNCHANGED <<store, nextId, pending, ncalls, created, removed>>

-----------------------------------------------------------------------------
(* deleteLog, src/backend/src/services/logs.service.ts *)

\* const logged = await RedisService.get(`log:${id}`);
svcDeleteLog_get(c, id, io) ==
    /\ CanStart(c)
    /\ id \in KnownIds
    /\ ncalls' = ncalls + 1
    /\ LET logged == RedisGet(cache, "log", LogKey(id))
           call == [IdleCall EXCEPT !.op = "svcDeleteLog", !.id = id, !.io = io,
                                    !.alone = ~InFlight(id, {c}), !.noCreate = ~CreateInFlight(id), !.evictTried = TRUE,
                                    !.afterCreate = CreateReturned(id)]
       IN calls' = [Disturbed(calls, id) EXCEPT ![c] =
              IF io = "fail" THEN Finish(call, Rethrow400(IoError))
              ELSE IF logged # Null THEN [call EXCEPT !.pc = "del"]
                   ELSE [call EXCEPT !.pc = "delete"]]
    /\ UNCHANGED <<store, nextId, cache, pending, created, removed, deleted>>

\* if (logged) await RedisService.del(`log:${id}`);
svcDeleteLog_del(c, io) ==
    /\ calls[c].op = "svcDeleteLog" /\ calls[c].pc = "del"
    /\ IF io = "fail"
       THEN /\ calls' = [calls EXCEPT ![c] = Finish([@ EXCEPT !.io = io], Rethrow400(IoError))]
            /\ UNCHANGED cache
       ELSE /\ cache' = RedisDel(cache, "log", LogKey(calls[c].id))
            /\ calls' = [calls EXCEPT ![c] = [@ EXCEPT !.pc = "delete", !.evicted = TRUE]]
    /\ UNCHANGED <<store, nextId, pending, ncalls, created, removed, deleted>>

\* await this.logs.findByIdAndDelete(id); return;
svcDeleteLog_delete(c, io) ==
    /\ calls[c].op = "svcDeleteLog" /\ calls[c].pc = "delete"
    /\ IF io = "fail"
       THEN /\ calls' = [calls EXCEPT ![c] = Finish([@ EXCEPT !.io = io], Rethrow400(IoError))]
            /\ UNCHANGED <<store, removed, deleted>>
       ELSE /\ store' = {d \in store : d.id # calls[c].id}
            /\ removed' = removed \cup (StoreIds \cap {calls[c].id})
            /\ calls' = [calls EXCEPT ![c] = Finish([@ EXCEPT !.storeDeleted = TRUE], Void)]
            /\ deleted' = Completed(calls[c], calls[c].id)
    /\ UNCHANGED <<nextId, cache, pending, ncalls, created>>

-----------------------------------------------------------------------------
(* deleteAllUserLogs *)

\* deleteAllUserLogs that also evicts log:<id> of every record it removes.
deleteAllUserLogs_evicts(c, userId, io) ==
    /\ CanStart(c)
    /\ ncalls' = ncalls + 1
    /\ LET call == [IdleCall EXCEPT !.op = "deleteAllUserLogs", !.userId = userId, !.io = io]
           gone == {d.id : d \in {e \in store : e.creator = userId}}
       IN
       IF io = "fail"
       THEN /\ calls' = [calls EXCEPT ![c] = Finish(call, Rethrow400(IoError))]
            /\ UNCHANGED <<store, removed, cache>>
       ELSE /\ store' = {d \in store : d.creator # userId}
            /\ removed' = removed \cup gone
            /\ cache' = [cache EXCEPT !.log = [k \in (DOMAIN cache.log) \ gone |-> cache.log[k]]]
            /\ calls' = [calls EXCEPT ![c] = Finish(call, Void)]
    /\ UNCHANGED <<nextId, pending, created, deleted>>

\* await this.logs.deleteMany({ creator: userId }); return;
deleteAllUserLogs(c, userId, io) ==
    /\ CanStart(c)
    /\ ncalls' = ncalls + 1
    /\ LET call == [IdleCall EXCEPT !.op = "deleteAllUserLogs", !.userId = userId, !.io = io] IN
       IF io = "fail"
       THEN /\ calls' = [calls EXCEPT ![c] = Finish(call, Rethrow400(IoError))]
            /\ UNCHANGED <<store, removed>>
       ELSE /\ store' = {d \in store : d.creator # userId}
            /\ removed' = removed \cup {d.id : d \in {e \in store : e.creator = userId}}
            /\ calls' = [calls EXCEPT ![c] = Finish(call, Void)]
    /\ UNCHANGED <<nextId, cache, pending, created, deleted>>

-----------------------------------------------------------------------------
(* getFilteredLogs: the aggregation pipeline *)

Range(seq) == {seq[i] : i \in DOMAIN seq}

\* The users this.users.findByApiKey resolves: api key -> user.
ApiKeys == [k \in {"k1"} |-> [form |-> "user", id |-> "u1"]]

\* this.users.findByApiKey(filter.key): the user, or undefined.
findByApiKey(key) ==
    IF key \in DOMAIN ApiKeys THEN ApiKeys[key] ELSE Null

\* { $sort: { [field]: order } }
SortStage(field, order) == [stage |-> "$sort", field |-> field, order |-> order]

\* firstMatch: a key is present only when its condition is set (<< >> = absent).
FirstMatch(filter, user) ==
    [stage |-> "$match",
     creator |-> IF user # Null THEN <<user.id>> ELSE << >>,
     npcIdIn |-> IF Len(filter.bosses) > 0 THEN <<filter.bosses>> ELSE << >>,
     createdAt |-> IF Len(filter.range) > 0 THEN <<filter.range[1], filter.range[2]>> ELSE << >>]

SecondMatch(filter) ==
    [stage |-> "$match",
     level |-> <<filter.level[1], filter.level[2]>>,
     gearLevel |-> <<filter.gearLevel[1], filter.gearLevel[2]>>,
     dps |-> filter.partyDps,
     classIdIn |-> IF Len(filter.classes) > 0 THEN <<filter.classes>> ELSE << >>]

\* The sort stages pushed after the group stage, in the order of the pushes.
SortStages(filter) ==
    (IF filter.sort # << >>
     THEN <<SortStage(filter.sort[1].field, filter.sort[1].order)>> ELSE << >>)
    \o (IF Len(filter.range) > 0
        THEN (IF filter.sort = << >> THEN <<SortStage("createdAt", -1)>> ELSE << >>)
        ELSE (IF filter.sort = << >> THEN <<SortStage("dps", -1)>> ELSE << >>))

\* aggrPipeline as it is when it is serialized and executed.
AggrPipeline(filter, user) ==
    << FirstMatch(filter, user),
       [stage |-> "$unwind", path |-> "$entities", preserveNullAndEmptyArrays |-> FALSE],
       SecondMatch(filter),
       [stage |-> "$group", id |-> "$_id", createdAt |-> "$createdAt", dps |-> "$damageStatistics.dps"] >>
    \o SortStages(filter)

\* md5(JSON.stringify(aggrPipeline)): the digest of the serialized pipeline.
\* Array order and key order are part of the text; distinct texts are taken
\* to have distinct digests.
md5(text) == [form |-> "md5", of |-> text]

PipelineHash(aggrPipeline) == md5([form |-> "text", json |-> aggrPipeline])

-----------------------------------------------------------------------------
(* The store's execution of the pipeline: this.logs.aggregate(aggrPipeline) *)

MatchesFirst(m, d) ==
    /\ (m.creator = << >> \/ d.creator = m.creator[1])
    /\ (m.npcIdIn = << >> \/ \E i \in DOMAIN d.entities : d.entities[i].npcId \in Range(m.npcIdIn[1]))
    /\ (m.createdAt = << >> \/ (m.createdAt[1] <= d.createdAt /\ d.createdAt <= m.createdAt[2]))

MatchesSecond(m, d, e) ==
    /\ m.level[1] <= e.level /\ e.level <= m.level[2]
    /\ m.gearLevel[1] <= e.gearLevel /\ e.gearLevel <= m.gearLevel[2]
    /\ d.dps >= m.dps
    /\ (m.classIdIn = << >> \/ e.classId \in Range(m.classIdIn[1]))

\* One row per log: { _id: { id, createdAt, dps } }
GroupRow(d) == [form |-> "doc", id |-> d.id, createdAt |-> d.createdAt, dps |-> d.dps]

Groups(aggrPipeline, docs) ==
    { GroupRow(d) : d \in { x \in docs :
          /\ MatchesFirst(aggrPipeline[1], x)
          /\ \E i \in DOMAIN x.entities : MatchesSecond(aggrPipeline[3], x, x.entities[i]) } }

\* The value of `_id.<field>` in a row (a field the rows lack compares equal).
SortKey(row, field) ==
    CASE field = "id" -> row.id
      [] field = "createdAt" -> row.createdAt
      [] field = "dps" -> row.dps
      [] OTHER -> 0

InOrder(a, b, st) ==
    IF st.order = -1 THEN SortKey(a, st.field) >= SortKey(b, st.field)
    ELSE SortKey(a, st.field) <= SortKey(b, st.field)

\* Every order the store may return the rows in: sorted by the last sort stage,
\* rows with equal keys in any order.
Aggregate(aggrPipeline, docs) ==
    LET rows == Groups(aggrPipeline, docs)
        n == Cardinality(rows)
    IN { s \in [1 .. n -> rows] :
           /\ \A i, j \in 1 .. n : i # j => s[i] # s[j]
           /\ Len(aggrPipeline) > 4 =>
                \A i, j \in 1 .. n : i < j => InOrder(s[i], s[j], aggrPipeline[Len(aggrPipeline)]) }

-----------------------------------------------------------------------------
(* getFilteredLogs: pagination *)

\* Math.ceil(count / pageSize), pageSize >= 1
MathCeil(count, pageSize) == (count + pageSize - 1) \div pageSize

Min(a, b) == IF a < b THEN a ELSE b

Max(a, b) == IF a > b THEN a ELSE b

\* slice that keeps the element at index end as well.
slice_inclusiveEnd(arr, start, end) ==
    LET len == Len(arr)
        from == IF start < 0 THEN (IF len + start > 0 THEN len + start ELSE 0) ELSE (IF start < len THEN start ELSE len)
        to == IF end < 0 THEN (IF len + end > 0 THEN len + end ELSE 0) ELSE (IF end + 1 < len THEN end + 1 ELSE len)
    IN IF from >= to THEN << >> ELSE SubSeq(arr, from + 1, to)

\* Array.prototype.slice(start, end): a negative index counts from the end.
slice(arr, start, end) ==
    LET len == Len(arr)
        from == IF start < 0 THEN Max(len + start, 0) ELSE Min(start, len)
        to == IF end < 0 THEN Max(len + end, 0) ELSE Min(end, len)
    IN IF from >= to THEN << >> ELSE SubSeq(arr, from + 1, to)

\* filter.page ?? 0
PageOf(filter) == IF filter.page = << >> THEN 0 ELSE filter.page[1]

EmptyPage == [form |-> "page", found |-> 0, page |-> 0, pages |-> 0, logs |-> {}]

SearchFailed == Exception(500, "Error getting filtered logs")

\* Paginate with count taken after the slice: found is the size of the page.
Paginate_countsPage(call, found) ==
    LET page == PageOf(call.filter)
        part == slice(found, page * call.pageSize, (page + 1) * call.pageSize)
        next == [call EXCEPT !.list = found, !.count = Len(part),
                             !.pages = MathCeil(Len(part), call.pageSize),
                             !.page = page, !.foundIds = part]
    IN IF Len(part) > 0 THEN [next EXCEPT !.pc = "find"] ELSE Finish(next, EmptyPage)

\* const count = foundIds.length; const pages = Math.ceil(count / pageSize);
\* const page = filter.page ?? 0;
\* foundIds = foundIds.slice(page * pageSize, (page + 1) * pageSize);
\* if (foundIds.length > 0) { ... find ... } else return { found: 0, page: 0, pages: 0, logs: [] }
Paginate(call, found) ==
    LET page == PageOf(call.filter)
        part == slice(found, page * call.pageSize, (page + 1) * call.pageSize)
        next == [call EXCEPT !.list = found, !.count = Len(found),
                             !.pages = MathCeil(Len(found), call.pageSize),
                             !.page = page, !.foundIds = part]
    IN IF Len(part) > 0 THEN [next EXCEPT !.pc = "find"] ELSE Finish(next, EmptyPage)

\* if (filter.key) user = await this.users.findByApiKey(filter.key); ...
\* const hash = md5(JSON.stringify(aggrPipeline));
\* const cached = await RedisService.get(`filteredLogs:${hash}`);
\* if (cached !== null) foundIds = JSON.parse(cached); ...
getFilteredLogs_get(c, filter, pageSize, io) ==
    /\ CanStart(c)
    /\ ncalls' = ncalls + 1
    /\ LET user == IF filter.key # << >> THEN findByApiKey(filter.key[1]) ELSE Null
           aggrPipeline == AggrPipeline(filter, user)
           hash == PipelineHash(aggrPipeline)
           cached == RedisGet(cache, "filteredLogs", hash)
           call == [IdleCall EXCEPT !.op = "getFilteredLogs", !.filter = filter, !.pageSize = pageSize,
                                    !.io = io, !.aggrPipeline = aggrPipeline, !.hash = hash, !.cached = cached]
       IN calls' = [calls EXCEPT ![c] =
              IF io = "fail" THEN Finish(call, SearchFailed)
              ELSE IF cached # Null THEN Paginate(call, JSONparse(cached).items)
                   ELSE [call EXCEPT !.pc = "aggregate"]]
    /\ UNCHANGED <<store, nextId, cache, pending, created, removed, deleted>>

\* getFilteredLogs_aggregate that waits for the cache write: a failing write
\* fails the search.
getFilteredLogs_aggregate_awaitsSet(c, io) ==
    /\ calls[c].op = "getFilteredLogs" /\ calls[c].pc = "aggregate"
    /\ IF io = "fail"
       THEN /\ calls' = [calls EXCEPT ![c] = Finish([@ EXCEPT !.io = io], SearchFailed)]
            /\ UNCHANGED cache
       ELSE \E found \in Aggregate(calls[c].aggrPipeline, store) :
            \/ /\ cache' = RedisSet(cache, "filteredLogs", calls[c].hash, JSONstringify(List(found)))
               /\ calls' = [calls EXCEPT ![c] = Paginate(@, found)]
            \/ /\ UNCHANGED cache
               /\ calls' = [calls EXCEPT ![c] = Finish([@ EXCEPT !.list = found], SearchFailed)]
    /\ UNCHANGED <<store, nextId, pending, ncalls, created, removed, deleted>>

\* foundIds = await this.logs.aggregate(aggrPipeline);
\* RedisService.set(`filteredLogs:${hash}`, JSON.stringify(foundIds), 'PX', ms('5m'));  (not awaited)
getFilteredLogs_aggregate(c, io) ==
    /\ calls[c].op = "getFilteredLogs" /\ calls[c].pc = "aggregate"
    /\ IF io = "fail"
       THEN /\ calls' = [calls EXCEPT ![c] = Finish([@ EXCEPT !.io = io], SearchFailed)]
            /\ UNCHANGED pending
       ELSE \E found \in Aggregate(calls[c].aggrPipeline, store) :
            /\ pending' = pending \cup {[part |-> "filteredLogs", key |-> calls[c].hash,
                                         val |-> JSONstringify(List(found))]}
            /\ calls' = [calls EXCEPT ![c] = Paginate(@, found)]
    /\ UNCHANGED <<store, nextId, cache, ncalls, created, removed, deleted>>

\* const logIds = foundIds.map(grp => grp._id.id);
\* const foundLogs = await this.logs.find({ _id: { $in: logIds } }).lean();
\* return { found: count, page, pages, logs: foundLogs.map(log => new LogObject(log)) };
getFilteredLogs_find(c, io) ==
    /\ calls[c].op = "getFilteredLogs" /\ calls[c].pc = "find"
    /\ LET logIds == {calls[c].foundIds[i].id : i \in DOMAIN calls[c].foundIds}
           foundLogs == {d \in store : d.id \in logIds}
       IN calls' = [calls EXCEPT ![c] =
              IF io = "fail" THEN Finish([@ EXCEPT !.io = io], SearchFailed)
              ELSE Finish(@, [form |-> "page", found |-> calls[c].count, page |-> calls[c].page,
                              pages |-> calls[c].pages, logs |-> {LogObject(d) : d \in foundLogs}])]
    /\ UNCHANGED <<store, nextId, cache, pending, ncalls, created, removed, deleted>>

-----------------------------------------------------------------------------
(* getFilteredLogs, src/backend/src/services/logs.service.ts: no cache, no   *)
(* pagination; the pipeline is built with a fixed sort and a limit stage.    *)

\* { $limit: 20 }
PlanLimit == 20

\* aggrPipeline of logs.service.ts as it is executed: the four stages, the
\* $sort by '_id.dps' and the $limit the literal carries.
svcAggrPipeline(filter, user) ==
    << FirstMatch(filter, user),
       [stage |-> "$unwind", path |-> "$entities", preserveNullAndEmptyArrays |-> FALSE],
       SecondMatch(filter),
       [stage |-> "$group", id |-> "$_id", created |-> "$createdAt", dps |-> "$damageStatistics.dps"],
       SortStage("dps", -1),
       [stage |-> "$limit", n |-> PlanLimit] >>

\* The store's execution of that pipeline: the rows in the order of the $sort
\* stage, cut to the first n by the $limit stage.
svcAggregate(aggrPipeline, docs) ==
    { slice(s, 0, aggrPipeline[6].n) : s \in Aggregate(SubSeq(aggrPipeline, 1, 5), docs) }

\* if (filter.key) user = await this.users.findByApiKey(filter.key); ...
\* const foundIds = await this.logs.aggregate(aggrPipeline);
\* if (foundIds.length > 0) { ... } return [];
svcGetFilteredLogs_aggregate(c, filter, io) ==
    /\ CanStart(c)
    /\ ncalls' = ncalls + 1
    /\ LET user == IF filter.key # << >> THEN findByApiKey(filter.key[1]) ELSE Null
           aggrPipeline == svcAggrPipeline(filter, user)
           call == [IdleCall EXCEPT !.op = "svcGetFilteredLogs", !.filter = filter, !.io = io,
                                    !.aggrPipeline = aggrPipeline]
       IN IF io = "fail"
          THEN calls' = [calls EXCEPT ![c] = Finish(call, SearchFailed)]
          ELSE \E found \in svcAggregate(aggrPipeline, store) :
               calls' = [calls EXCEPT ![c] =
                   IF Len(found) > 0
                   THEN [call EXCEPT !.pc = "find", !.list = found, !.foundIds = found, !.count = Len(found)]
                   ELSE Finish(call, [form |-> "logs", logs |-> {}])]
    /\ UNCHANGED <<store, nextId, cache, pending, created, removed, deleted>>

\* const foundLogs = await this.logs.find({ _id: { $in: logIds } }).lean();
\* return foundLogs.map(log => new LogObject(log));
svcGetFilteredLogs_find(c, io) ==
    /\ calls[c].op = "svcGetFilteredLogs" /\ calls[c].pc = "find"
    /\ LET logIds == {calls[c].foundIds[i].id : i \in DOMAIN calls[c].foundIds}
           foundLogs == {d \in store : d.id \in logIds}
       IN calls' = [calls EXCEPT ![c] =
              IF io = "fail" THEN Finish([@ EXCEPT !.io = io], SearchFailed)
              ELSE Finish(@, [form |-> "logs", logs |-> {LogObject(d) : d \in foundLogs}])]
    /\ UNCHANGED <<store, nextId, cache, pending, ncalls, created, removed, deleted>>

-----------------------------------------------------------------------------
(* getUniqueEntities *)

\* if (!type) type = [ENTITY_TYPE.BOSS, ENTITY_TYPE.GUARDIAN];
TypesOf(type) == IF type = << >> THEN <<"BOSS", "GUARDIAN">> ELSE type[1]

\* `uniqueEntities:${type.join(',')}`: the types in the order given.
UniqueKey(types) == types

\* const cached = await RedisService.get(...); if (cached) return JSON.parse(cached);
\* (outside the try: a failure of the get reaches the caller as it is)
getUniqueEntities_get(c, type, io) ==
    /\ CanStart(c)
    /\ ncalls' = ncalls + 1
    /\ LET types == TypesOf(type)
           cached == RedisGet(cache, "uniqueEntities", UniqueKey(types))
           call == [IdleCall EXCEPT !.op = "getUniqueEntities", !.types = types, !.io = io, !.cached = cached]
       IN calls' = [calls EXCEPT ![c] =
              IF io = "fail" THEN Finish(call, IoError)
              ELSE IF cached # Null THEN Finish(call, JSONparse(cached))
                   ELSE [call EXCEPT !.pc = "aggregate"]]
    /\ UNCHANGED <<store, nextId, cache, pending, created, removed, deleted>>

\* $unwind entities, $match entities.type in type, $group by (npcId, type);
\* for (const doc of aggregate) bosses.push(doc._id);
getUniqueEntities_aggregate(c, io) ==
    /\ calls[c].op = "getUniqueEntities" /\ calls[c].pc = "aggregate"
    /\ LET bosses == UNION { { [id |-> d.entities[i].npcId, type |-> d.entities[i].type] :
                                 i \in { j \in DOMAIN d.entities : d.entities[j].type \in Range(calls[c].types) } } :
                               d \in store }
       IN calls' = [calls EXCEPT ![c] =
              IF io = "fail"
              THEN Finish([@ EXCEPT !.io = io], Exception(500, "Error getting bosses"))
              ELSE [@ EXCEPT !.pc = "set", !.bosses = bosses]]
    /\ UNCHANGED <<store, nextId, cache, pending, ncalls, created, removed, deleted>>

\* await RedisService.set(`uniqueEntities:...`, JSON.stringify(bosses), 'PX', ms('5m'));
\* return bosses;
getUniqueEntities_set(c, io) ==
    /\ calls[c].op = "getUniqueEntities" /\ calls[c].pc = "set"
    /\ IF io = "fail"
       THEN /\ calls' = [calls EXCEPT ![c] =
                            Finish([@ EXCEPT !.io = io], Exception(500, "Error getting bosses"))]
            /\ UNCHANGED cache
       ELSE /\ cache' = RedisSet(cache, "uniqueEntities", UniqueKey(calls[c].types),
                                 JSONstringify([form |-> "entities", items |-> calls[c].bosses]))
            /\ calls' = [calls EXCEPT ![c] = Finish(@, [form |-> "entities", items |-> calls[c].bosses])]
    /\ UNCHANGED <<store, nextId, pending, ncalls, created, removed, deleted>>

-----------------------------------------------------------------------------
(* validateLog *)

\* Entities of a log handed to validateLog: at most MaxEntities of them.
MaxEntities == 3

\* The supported-boss registry (@/config/supported-bosses): the npcIds known.
supportedBosses == {1, 2}

\* The entities the validated logs are made of: a player, a boss of the
\* registry, a boss and a guardian outside it.
EntityKinds ==
    { Entity("PLAYER", 0, 10, 50, 1000), Entity("BOSS", 1, 0, 60, 1500),
      Entity("BOSS", 8, 0, 60, 1500), Entity("GUARDIAN", 9, 0, 60, 1500) }

\* The logs validateLog is called with.
ValidatedLogs ==
    { [form |-> "body", entities |-> es] : es \in UNION { [1 .. n -> EntityKinds] : n \in 0 .. MaxEntities } }

\* A ValidationError of class-validator: its constraints (absent: << >>) and
\* its children.
ValidationError(constraints, children) == [constraints |-> constraints, children |-> children]

\* What validate(log, ...) may resolve to: no error, an error with constraints,
\* an error whose constraints are those of a child, both.
ValidationResults ==
    LET leaf == ValidationError(<<"{\"isInt\":\"level\"}">>, << >>)
        nested == ValidationError(<< >>, <<ValidationError(<<"{\"min\":\"gearLevel\"}">>, << >>)>>)
    IN { << >>, <<leaf>>, <<nested>>, <<nested, leaf>> }

NodeEnvs == {"development", "production"}

RECURSIVE transformError(_)
RECURSIVE transformEach(_)

\* errors.forEach(error => { allErrors = [...allErrors, ...this.transformError(error)] })
\* error.children.forEach(child => { errors.push(...this.transformError(child)) })
transformEach(errors) ==
    IF errors = << >> THEN << >> ELSE transformError(Head(errors)) \o transformEach(Tail(errors))

\* private transformError(error: ValidationError)
transformError(error) ==
    (IF error.constraints # << >> THEN <<error.constraints[1]>> ELSE << >>)
    \o (IF Len(error.children) > 0 THEN transformEach(error.children) ELSE << >>)

RECURSIVE JoinTexts(_)
JoinTexts(texts) ==
    IF texts = << >> THEN ""
    ELSE IF Len(texts) = 1 THEN texts[1]
    ELSE texts[1] \o "," \o JoinTexts(Tail(texts))

\* JSON.stringify(allErrors): the text of the array of constraints.
StringifyErrors(allErrors) == "[" \o JoinTexts(allErrors) \o "]"

\* `${npcId} is not a supported boss`
NotSupported(npcId) == ToString(npcId) \o " is not a supported boss"

\* log.entities.filter(entity => entity.type !== ENTITY_TYPE.PLAYER).map(entity => entity.npcId)
NonPlayers(log) ==
    LET es == SelectSeq(log.entities, LAMBDA e : e.type # "PLAYER")
    IN [i \in DOMAIN es |-> es[i].npcId]

\* validateLog without the check for players.
validateLog_noPlayerCheck(log, errors, env, io) ==
    IF io = "fail" THEN Rethrow400(IoError)
    ELSE IF Len(errors) > 0
    THEN IF env # "development" THEN Rethrow400(Exception(400, "Invalid log structure"))
         ELSE Rethrow400(Exception(400, StringifyErrors(transformEach(errors))))
    ELSE LET nonPlayers == NonPlayers(log)
             unknown == {i \in DOMAIN nonPlayers : nonPlayers[i] \notin supportedBosses}
         IN IF unknown # {}
            THEN Rethrow400(Exception(400, NotSupported(nonPlayers[CHOOSE i \in unknown : \A j \in unknown : i <= j])))
            ELSE Void

\* validateLog that goes through the non-player entities from the last to the
\* first.
validateLog_fromLast(log, errors, env, io) ==
    IF io = "fail" THEN Rethrow400(IoError)
    ELSE IF Len(errors) > 0
    THEN IF env # "development" THEN Rethrow400(Exception(400, "Invalid log structure"))
         ELSE Rethrow400(Exception(400, StringifyErrors(transformEach(errors))))
    ELSE LET players == SelectSeq(log.entities, LAMBDA e : e.type = "PLAYER")
             nonPlayers == NonPlayers(log)
             unknown == {i \in DOMAIN nonPlayers : nonPlayers[i] \notin supportedBosses}
         IN IF Len(players) = 0 THEN Rethrow400(Exception(400, "No players found in log"))
            ELSE IF unknown # {}
            THEN Rethrow400(Exception(400, NotSupported(nonPlayers[CHOOSE i \in unknown : \A j \in unknown : i >= j])))
            ELSE Void

\* public async validateLog(log: LogObject): what the call ends in.
\* errors: what validate(log, ...) resolved to; io = "fail": validate threw.
\* Every exception thrown in the try is thrown again by the catch as
\* Exception(400, err.message).
validateLog(log, errors, env, io) ==
    IF io = "fail" THEN Rethrow400(IoError)
    ELSE IF Len(errors) > 0
    THEN IF env # "development" THEN Rethrow400(Exception(400, "Invalid log structure"))
         ELSE Rethrow400(Exception(400, StringifyErrors(transformEach(errors))))
    ELSE LET players == SelectSeq(log.entities, LAMBDA e : e.type = "PLAYER")
             nonPlayers == NonPlayers(log)
             unknown == {i \in DOMAIN nonPlayers : nonPlayers[i] \notin supportedBosses}
         IN IF Len(players) = 0 THEN Rethrow400(Exception(400, "No players found in log"))
            ELSE IF unknown # {}
            THEN Rethrow400(Exception(400, NotSupported(nonPlayers[CHOOSE i \in unknown : \A j \in unknown : i <= j])))
            ELSE Void

\* A caller validates a log (NODE_ENV is env).
validateLog_validate(c, log, errors, env, io) ==
    /\ CanStart(c)
    /\ ncalls' = ncalls + 1
    /\ calls' = [calls EXCEPT ![c] =
                    Finish([IdleCall EXCEPT !.op = "validateLog", !.log = log, !.errors = errors,
                                            !.env = env, !.io = io],
                           validateLog(log, errors, env, io))]
    /\ UNCHANGED <<store, nextId, cache, pending, created, removed, deleted>>

-----------------------------------------------------------------------------
(* The record-cache specification: the single-log operations, run by       *)
(* concurrent callers on a store and a cache that start empty.             *)

EmptyCache == [log |-> EmptyMap, filteredLogs |-> EmptyMap, uniqueEntities |-> EmptyMap]

Init ==
    /\ store = {}
    /\ nextId = 1
    /\ cache = EmptyCache
    /\ pending = {}
    /\ calls = [c \in Callers |-> IdleCall]
    /\ ncalls = 0
    /\ created = {}
    /\ removed = {}
    /\ deleted = [alone |-> {}, noCreate |-> {}]

IoOutcomes == {"ok", "fail"}

Next ==
    \/ \E c \in Callers, body \in Bodies, outcome \in {"ok", "fail", "none"} : createLog_create(c, body, outcome)
    \/ \E c \in Callers : createLog_return(c)
    \/ \E w \in pending : pendingSet(w)
    \/ \E w \in pending : pendingFail(w)
    \/ \E key \in DOMAIN cache.log : expire("log", key)
    \/ \E c \in Callers, id \in KnownIds, byPassCache \in BOOLEAN, io \in IoOutcomes : getLogById_get(c, id, byPassCache, io)
    \/ \E c \in Callers, io \in IoOutcomes : getLogById_find(c, io)
    \/ \E c \in Callers, io \in IoOutcomes : getLogById_set(c, io)
    \/ \E c \in Callers, id \in KnownIds, io \in IoOutcomes : deleteLog_delete(c, id, io)
    \/ \E c \in Callers, io \in IoOutcomes : deleteLog_get(c, io)
    \/ \E c \in Callers, io \in IoOutcomes : deleteLog_del(c, io)
    \/ \E c \in Callers, id \in KnownIds, io \in IoOutcomes : svcDeleteLog_get(c, id, io)
    \/ \E c \in Callers, io \in IoOutcomes : svcDeleteLog_del(c, io)
    \/ \E c \in Callers, io \in IoOutcomes : svcDeleteLog_delete(c, io)
    \/ \E c \in Callers, userId \in Users, io \in IoOutcomes : deleteAllUserLogs(c, userId, io)
    \/ \E c \in Callers : Return(c)

Spec == Init /\ [][Next]_vars

-----------------------------------------------------------------------------
(* The search specification: one caller at a time searches, and deletes in  *)
(* bulk, on a store that already holds logs (the cache is empty, as after   *)
(* the entries' expiry); cache writes that were not awaited land or fail at *)
(* any later moment.                                                        *)

SearchCallers == {"c1"}

InitSearch ==
    /\ \E n \in 0 .. MaxStored :
          /\ store = {NewDoc(Catalogue[((i - 1) % Len(Catalogue)) + 1], i) : i \in 1 .. n}
          /\ nextId = n + 1
    /\ created = store
    /\ cache = EmptyCache
    /\ pending = {}
    /\ calls = [c \in Callers |-> IdleCall]
    /\ ncalls = 0
    /\ removed = {}
    /\ deleted = [alone |-> {}, noCreate |-> {}]

\* The filters searched with (each with every page of Pages).
Filters ==
    { DefaultFilter,
      [DefaultFilter EXCEPT !.key = <<"k1">>],
      [DefaultFilter EXCEPT !.bosses = <<2>>, !.sort = <<[field |-> "createdAt", order |-> 1]>>] }

Pages == {<< >>} \cup {<<p>> : p \in (0 - MaxPage) .. MaxPage}

PageSizes == 1 .. MaxPageSize

NextSearch ==
    \/ /\ ncalls < MaxSearches
       /\ \E c \in SearchCallers, f \in Filters, p \in Pages, pageSize \in PageSizes, io \in IoOutcomes :
             getFilteredLogs_get(c, [f EXCEPT !.page = p], pageSize, io)
    \/ \E c \in SearchCallers, io \in IoOutcomes : getFilteredLogs_aggregate(c, io)
    \/ \E c \in SearchCallers, io \in IoOutcomes : getFilteredLogs_find(c, io)
    \/ /\ ncalls < MaxSearches
       /\ \E c \in SearchCallers, userId \in Users, io \in IoOutcomes : deleteAllUserLogs(c, userId, io)
    \/ \E w \in pending : pendingSet(w)
    \/ \E w \in pending : pendingFail(w)
    \/ \E key \in DOMAIN cache.filteredLogs : expire("filteredLogs", key)
    \/ \E c \in SearchCallers : Return(c)

SearchSpec == InitSearch /\ [][NextSearch]_vars

-----------------------------------------------------------------------------
(* The bulk-delete specification: one caller at a time reads single logs,   *)
(* searches with the default filter, lists the unique entities and deletes  *)
(* in bulk, so that the cache holds entries of all three kinds.             *)

TypeLists == {<< >>, <<<<"GUARDIAN", "BOSS">>>>}

NextBulk ==
    \/ \E c \in SearchCallers, id \in KnownIds, byPassCache \in BOOLEAN, io \in IoOutcomes :
          getLogById_get(c, id, byPassCache, io)
    \/ \E c \in SearchCallers, io \in IoOutcomes : getLogById_find(c, io)
    \/ \E c \in SearchCallers, io \in IoOutcomes : getLogById_set(c, io)
    \/ \E c \in SearchCallers, io \in IoOutcomes : getFilteredLogs_get(c, DefaultFilter, MaxPageSize, io)
    \/ \E c \in SearchCallers, io \in IoOutcomes : getFilteredLogs_aggregate(c, io)
    \/ \E c \in SearchCallers, io \in IoOutcomes : getFilteredLogs_find(c, io)
    \/ \E c \in SearchCallers, type \in TypeLists, io \in IoOutcomes : getUniqueEntities_get(c, type, io)
    \/ \E c \in SearchCallers, io \in IoOutcomes : getUniqueEntities_aggregate(c, io)
    \/ \E c \in SearchCallers, io \in IoOutcomes : getUniqueEntities_set(c, io)
    \/ \E c \in SearchCallers, userId \in Users, io \in IoOutcomes : deleteAllUserLogs(c, userId, io)
    \/ \E w \in pending : pendingSet(w)
    \/ \E w \in pending : pendingFail(w)
    \/ \E part \in {"log", "filteredLogs", "uniqueEntities"} : \E key \in DOMAIN cache[part] : expire(part, key)
    \/ \E c \in SearchCallers : Return(c)

BulkSpec == InitSearch /\ [][NextBulk]_vars

-----------------------------------------------------------------------------
(* The cache-miss specification: searches within one expiry window (no      *)
(* entry expires), so that an entry that is neither in the cache nor being  *)
(* written after a miss is one whose write has failed.                      *)

NextMiss ==
    \/ /\ ncalls < MaxSearches
       /\ \E c \in SearchCallers, f \in Filters, p \in Pages, pageSize \in PageSizes, io \in IoOutcomes :
             getFilteredLogs_get(c, [f EXCEPT !.page = p], pageSize, io)
    \/ \E c \in SearchCallers, io \in IoOutcomes : getFilteredLogs_aggregate(c, io)
    \/ \E c \in SearchCallers, io \in IoOutcomes : getFilteredLogs_find(c, io)
    \/ \E w \in pending : pendingSet(w)
    \/ \E w \in pending : pendingFail(w)
    \/ \E c \in SearchCallers : Return(c)

MissSpec == InitSearch /\ [][NextMiss]_vars

-----------------------------------------------------------------------------
(* The plan specification: two callers search, with either revision of      *)
(* getFilteredLogs, over filters that set each of the fields the plan is    *)
(* built from.                                                              *)

\* Searches started in a behaviour of the plan specification.
MaxPlans == 2

ByCreatedAt == [field |-> "createdAt", order |-> 1]

PlanFilters ==
    { DefaultFilter,
      [DefaultFilter EXCEPT !.key = <<"k1">>],
      [DefaultFilter EXCEPT !.key = <<"k9">>],
      [DefaultFilter EXCEPT !.bosses = <<1, 2>>],
      [DefaultFilter EXCEPT !.bosses = <<2, 1>>],
      [DefaultFilter EXCEPT !.classes = <<10, 20>>],
      [DefaultFilter EXCEPT !.classes = <<20, 10>>],
      [DefaultFilter EXCEPT !.range = <<1, 2>>],
      [DefaultFilter EXCEPT !.sort = <<ByCreatedAt>>],
      [DefaultFilter EXCEPT !.range = <<1, 2>>, !.sort = <<ByCreatedAt>>] }

NextPlan ==
    \/ /\ ncalls < MaxPlans
       /\ \E c \in Callers, f \in PlanFilters, io \in IoOutcomes : getFilteredLogs_get(c, f, MaxPageSize, io)
    \/ \E c \in Callers, io \in IoOutcomes : getFilteredLogs_aggregate(c, io)
    \/ \E c \in Callers, io \in IoOutcomes : getFilteredLogs_find(c, io)
    \/ /\ ncalls < MaxPlans
       /\ \E c \in Callers, f \in PlanFilters, io \in IoOutcomes : svcGetFilteredLogs_aggregate(c, f, io)
    \/ \E c \in Callers, io \in IoOutcomes : svcGetFilteredLogs_find(c, io)
    \/ \E w \in pending : pendingSet(w)
    \/ \E w \in pending : pendingFail(w)
    \/ \E c \in Callers : Return(c)

PlanSpec == InitSearch /\ [][NextPlan]_vars

-----------------------------------------------------------------------------
(* The validator specification: one caller validates logs, in either mode  *)
(* of NODE_ENV.                                                             *)

\* Logs validated in a behaviour of the validator specification.
MaxValidations == 1

NextValidate ==
    \/ /\ ncalls < MaxValidations
       /\ \E c \in SearchCallers, log \in ValidatedLogs, errors \in ValidationResults, env \in NodeEnvs,
             io \in IoOutcomes : validateLog_validate(c, log, errors, env, io)
    \/ \E c \in SearchCallers : Return(c)

ValidateSpec == Init /\ [][NextValidate]_vars

-----------------------------------------------------------------------------
(* Properties of the record cache *)

IsDelete(call) == call.op \in {"deleteLog", "svcDeleteLog"}

NotFound == Exception(400, "Error finding log")

\* The step caller c takes in this transition, if it takes one.
Stepped(c) == calls'[c] # calls[c]

\* C1: in every execution of deleteLog(id) the store delete has completed
\* before the eviction of log:<id> is attempted (the cache is not read or
\* deleted from before the store delete).
C1_StoreDeleteBeforeEviction ==
    \A c \in Callers : (IsDelete(calls[c]) /\ calls[c].evictTried) => calls[c].storeDeleted

\* C2: after a deleteLog(id) that ran to its end with no other operation on id
\* in flight, a later getLogById(id, false) never returns a log: it fails, and
\* when its own store and cache calls succeed the failure is the not-found error.
C2_NoReadAfterDelete ==
    \A c \in Callers :
        (calls[c].op = "getLogById" /\ calls[c].pc = "done" /\ ~calls[c].byPassCache /\ calls[c].afterClean)
            => /\ calls[c].result.form = "exception"
               /\ (calls[c].io = "ok" => calls[c].result = NotFound)

\* Reached: a deleteLog that evicted a cached entry of a stored log has ended,
\* and a read of that id without bypass, begun after it, has ended too.
C2_Witness ==
    \E c \in Callers, d \in Callers :
        /\ IsDelete(calls[d]) /\ calls[d].pc = "done" /\ calls[d].evicted /\ calls[d].alone
        /\ calls[d].result = Void /\ calls[d].id \in removed
        /\ calls[c].op = "getLogById" /\ calls[c].pc = "done" /\ ~calls[c].byPassCache
        /\ calls[c].afterClean /\ calls[c].id = calls[d].id /\ calls[c].io = "ok"

\* C3: once a deleteLog(id) and the getLogById(id) calls that ran beside it have
\* all ended and the store no longer holds the record, the cache holds no
\* log:<id> entry.
C3_NoEntryOutlivesDelete ==
    \A id \in 1 .. MaxLogs :
        (id \in deleted.noCreate /\ id \notin StoreIds /\ ~InFlight(id, {}))
            => LogKey(id) \notin DOMAIN cache.log

\* C4: getLogById(id, true) returns the document of the store, never the parsed
\* cache entry; when it fails with the not-found error the store had no such
\* document.
C4_BypassReadsStore ==
    \A c \in Callers :
        (calls[c].op = "getLogById" /\ calls[c].pc = "done" /\ calls[c].byPassCache)
            => \/ /\ calls[c].result.form = "LogObject"
                  /\ calls[c].result.log \in created
                  /\ calls[c].result.log.id = calls[c].id
               \/ /\ calls[c].result = NotFound
                  /\ calls[c].id \notin {d.id : d \in created} \ removed
               \/ /\ calls[c].result = Rethrow400(IoError)
                  /\ calls[c].io = "fail"

\* Reached: a bypassing read that found log:<id> in the cache and returned the
\* store's document.
C4_Witness ==
    \E c \in Callers :
        /\ calls[c].op = "getLogById" /\ calls[c].pc = "done" /\ calls[c].byPassCache
        /\ calls[c].cached # Null
        /\ calls[c].result.form = "LogObject"
        /\ calls[c].result.log # JSONparse(calls[c].cached)

\* C5: when getLogById asks the store and the store has no such record, the call
\* ends in an error (the not-found error when the store answered), never in an
\* empty result, and no cache entry is written.
C5_MissingRecordIsNotFound ==
    [][\A c \in Callers :
          (calls[c].op = "getLogById" /\ calls[c].pc = "find" /\ Stepped(c) /\ calls[c].id \notin StoreIds)
              => /\ calls'[c].pc = "done"
                 /\ calls'[c].result.form = "exception"
                 /\ (calls'[c].io = "ok" => calls'[c].result = NotFound)
                 /\ cache' = cache
                 /\ pending' = pending]_vars

\* Reached: a read that went to the store for a deleted record and ended in the
\* not-found error, with no entry for the id in the cache.
C5_Witness ==
    \E c \in Callers :
        /\ calls[c].op = "getLogById" /\ calls[c].pc = "done" /\ calls[c].result = NotFound
        /\ calls[c].id \in removed
        /\ LogKey(calls[c].id) \notin DOMAIN cache.log

\* C6: createLog's store create starts no cache write; when it fails or yields
\* no record, createLog fails with nothing written; a write of log:<id> is only
\* started for a document the store has returned.
C6_PersistBeforeCache ==
    [][/\ \A c \in Callers :
            (calls'[c].op = "createLog" /\ calls[c].pc = "idle" /\ Stepped(c))
                => /\ cache' = cache /\ pending' = pending
                   /\ (calls'[c].io # "ok" =>
                          /\ calls'[c].pc = "done" /\ calls'[c].result.form = "exception"
                          /\ store' = store)
       /\ \A w \in pending' \ pending :
            w.part = "log" => \E d \in created : w.key = LogKey(d.id) /\ w.val = JSONstringify(d)]_vars

\* Reached: one createLog has failed at the store and another has returned its
\* log, with the write of its log:<id> started.
C6_Witness ==
    \E c \in Callers, d \in Callers :
        /\ calls[c].op = "createLog" /\ calls[c].pc = "done" /\ calls[c].io # "ok"
        /\ calls[d].op = "createLog" /\ calls[d].pc = "done" /\ calls[d].result.form = "LogObject"
        /\ \E w \in pending : w.part = "log" /\ w.key = LogKey(calls[d].id)

-----------------------------------------------------------------------------
(* Properties of the bulk delete and of the search *)

\* C7: deleteAllUserLogs(userId) removes from the store every record whose
\* creator is userId, leaves every other record, and leaves every cache entry
\* (and every cache write in flight) as it is.
C7_BulkDeleteFrame ==
    [][\A c \in Callers :
          (calls'[c].op = "deleteAllUserLogs" /\ calls[c].pc = "idle" /\ Stepped(c))
              => /\ cache' = cache
                 /\ pending' = pending
                 /\ \A d \in store : d.creator # calls'[c].userId => d \in store'
                 /\ store' \subseteq store
                 /\ (calls'[c].io = "ok" =>
                        /\ calls'[c].result = Void
                        /\ \A d \in store' : d.creator # calls'[c].userId)]_vars

\* Reached: a bulk delete has removed a user's records and left another
\* user's, while the cache holds log:<id> of a removed record and a
\* filteredLogs entry.
C7_Witness ==
    \E c \in Callers :
        /\ calls[c].op = "deleteAllUserLogs" /\ calls[c].pc = "done" /\ calls[c].result = Void
        /\ store # {}
        /\ \E id \in removed : LogKey(id) \in DOMAIN cache.log
        /\ DOMAIN cache.filteredLogs # {}

\* The call has the ID-group list and has paginated it.
Paginated(call) ==
    /\ call.op = "getFilteredLogs"
    /\ \/ call.pc = "find"
       \/ call.pc = "done" /\ call.result.form = "page"

\* The concatenation of the slices of pages 0 .. n-1.
RECURSIVE PagesJoined(_, _, _)
PagesJoined(list, pageSize, n) ==
    IF n = 0 THEN << >>
    ELSE PagesJoined(list, pageSize, n - 1) \o slice(list, (n - 1) * pageSize, n * pageSize)

\* C8: for a list of N ID groups and page size P >= 1 the search computes
\* pages = ceil(N / P); the slices of pages 0 .. pages-1 are disjoint, each
\* non-empty, and together are the list in order; a search for one of these
\* pages reports found = N and that number of pages.
C8_PagesPartitionList ==
    \A c \in Callers :
        Paginated(calls[c]) =>
            LET call == calls[c]
                N == Len(call.list)
                P == call.pageSize
            IN /\ call.pages * P >= N /\ (call.pages - 1) * P < N
               /\ PagesJoined(call.list, P, call.pages) = call.list
               /\ \A p \in 0 .. (call.pages - 1) :
                     /\ Len(slice(call.list, p * P, (p + 1) * P)) > 0
                     /\ Len(slice(call.list, p * P, (p + 1) * P)) <= P
               /\ \A p \in 0 .. (call.pages - 1) :
                     (call.filter.page = <<p>> \/ (p = 0 /\ call.filter.page = << >>)) =>
                        /\ call.foundIds = slice(call.list, p * P, (p + 1) * P)
                        /\ (call.pc = "done" =>
                               /\ call.result.found = N
                               /\ call.result.pages = call.pages
                               /\ call.result.page = p)

\* Reached: a search over three ID groups with page size two has returned
\* the second page: found 3, pages 2, the one remaining ID.
C8_Witness ==
    \E c \in Callers :
        /\ Paginated(calls[c]) /\ calls[c].pc = "done"
        /\ Len(calls[c].list) = 3 /\ calls[c].pageSize = 2 /\ calls[c].filter.page = <<1>>
        /\ calls[c].result.found = 3 /\ calls[c].result.pages = 2
        /\ Len(calls[c].foundIds) = 1
        /\ Cardinality(calls[c].result.logs) = 1

\* C9 as claimed: for every filter and every requested page the result's found
\* is the length of the full ID-group list and pages is ceil(found / pageSize).
C9_FoundIsListLength ==
    \A c \in Callers :
        (Paginated(calls[c]) /\ calls[c].pc = "done") =>
            /\ calls[c].result.found = Len(calls[c].list)
            /\ calls[c].result.pages * calls[c].pageSize >= calls[c].result.found
            /\ (calls[c].result.pages - 1) * calls[c].pageSize < calls[c].result.found

\* C9 as amended: when the slice of the requested page holds at least one ID,
\* found is the length of the full ID-group list (from the cache or the store)
\* and pages is ceil(found / pageSize); when the slice is empty the result is
\* { found: 0, page: 0, pages: 0, logs: [] }.
C9_FoundIsListLengthOnRows ==
    \A c \in Callers :
        (Paginated(calls[c]) /\ calls[c].pc = "done") =>
            IF Len(calls[c].foundIds) > 0
            THEN /\ calls[c].result.found = Len(calls[c].list)
                 /\ calls[c].result.pages * calls[c].pageSize >= calls[c].result.found
                 /\ (calls[c].result.pages - 1) * calls[c].pageSize < calls[c].result.found
            ELSE calls[c].result = EmptyPage

\* Reached: a search served from the cache has returned a page of a longer list.
C9_Witness ==
    \E c \in Callers :
        /\ Paginated(calls[c]) /\ calls[c].pc = "done"
        /\ calls[c].cached # Null
        /\ Len(calls[c].foundIds) > 0
        /\ calls[c].result.found > Len(calls[c].foundIds)

\* C10: the page the search slices with and reports is never negative.
C10_PageNeverNegative ==
    \A c \in Callers :
        Paginated(calls[c]) =>
            /\ calls[c].page >= 0
            /\ (calls[c].pc = "done" => calls[c].result.page >= 0)

-----------------------------------------------------------------------------
(* Properties of the cache population of the search *)

\* The cache write w settles in this step: it lands or it fails.
Settles(w) == w \in pending /\ pending' = pending \ {w}

\* C11: on a filteredLogs:<hash> miss the search executes its plan against the
\* store and starts the cache write without waiting for it (the entry is not
\* yet written when the search goes on paginating); when that write lands or
\* fails no call changes, and the search ends in its page whenever its own
\* store calls succeed: a failing write never reaches the caller as an error.
C11_PopulateFailureNotSeen ==
    [][/\ \A c \in Callers :
            (calls[c].op = "getFilteredLogs" /\ calls[c].pc = "aggregate" /\ Stepped(c) /\ calls'[c].io = "ok")
                => /\ cache' = cache
                   /\ \E w \in pending' : /\ w.part = "filteredLogs" /\ w.key = calls[c].hash
                                          /\ w.val = JSONstringify(List(calls'[c].list))
                   /\ calls'[c] = Paginate(calls[c], calls'[c].list)
       /\ \A w \in pending : (w.part = "filteredLogs" /\ Settles(w)) => calls' = calls
       /\ \A c \in Callers :
            (calls[c].op = "getFilteredLogs" /\ calls[c].pc = "find" /\ Stepped(c) /\ calls'[c].io = "ok")
                => /\ calls'[c].result.form = "page"
                   /\ calls'[c].result.found = Len(calls[c].list)
                   /\ calls'[c].result.logs = {LogObject(d) : d \in {e \in store :
                                                  \E i \in DOMAIN calls[c].foundIds : calls[c].foundIds[i].id = e.id}}]_vars

\* Reached: a search that missed the cache has returned a page of logs although
\* the cache write it started has failed (no entry, no write in flight).
C11_Witness ==
    \E c \in Callers :
        /\ calls[c].op = "getFilteredLogs" /\ calls[c].pc = "done" /\ calls[c].cached = Null
        /\ calls[c].result.form = "page" /\ calls[c].result.found > 0
        /\ calls[c].hash \notin DOMAIN cache.filteredLogs
        /\ ~\E w \in pending : w.part = "filteredLogs" /\ w.key = calls[c].hash

-----------------------------------------------------------------------------
(* Properties of the plan *)

\* The call is a search (of either revision) that has built its plan.
HasPlan(call) == call.op \in {"getFilteredLogs", "svcGetFilteredLogs"} /\ call.pc # "idle"

\* The filters ask for the same logs: they differ at most in the order in which
\* the bosses and the classes are listed.
SameUpToOrder(f, g) ==
    /\ Range(f.bosses) = Range(g.bosses)
    /\ Range(f.classes) = Range(g.classes)
    /\ [f EXCEPT !.bosses = << >>, !.classes = << >>] = [g EXCEPT !.bosses = << >>, !.classes = << >>]

\* C12: two searches whose filters differ only in the order in which the same
\* bosses or the same classes are listed have the same hash, and so the same
\* filteredLogs:<hash> entry.
C12_OrderOfListsNotHashed ==
    \A c \in Callers, d \in Callers :
        (calls[c].op = "getFilteredLogs" /\ calls[c].pc # "idle" /\
         calls[d].op = "getFilteredLogs" /\ calls[d].pc # "idle" /\
         SameUpToOrder(calls[c].filter, calls[d].filter))
            => calls[c].hash = calls[d].hash

\* The filter carries an API key that resolves to no user.
UnresolvedKey(filter) == filter.key # << >> /\ findByApiKey(filter.key[1]) = Null

\* C13: a search whose filter carries an API key that resolves to no user ends
\* in an error with its first step: it never goes on to run its plan (which
\* would carry no creator restriction).
C13_UnresolvedKeyFails ==
    \A c \in Callers :
        (HasPlan(calls[c]) /\ UnresolvedKey(calls[c].filter))
            => calls[c].pc = "done" /\ calls[c].result.form = "exception"

\* The sort stage the filter asks for: the explicit sort, else creation
\* timestamp descending when a range is given, else dps descending.
ExpectedSort(filter) ==
    IF filter.sort # << >> THEN SortStage(filter.sort[1].field, filter.sort[1].order)
    ELSE IF Len(filter.range) > 0 THEN SortStage("createdAt", -1)
    ELSE SortStage("dps", -1)

StagesOf(aggrPipeline, stage) == {i \in DOMAIN aggrPipeline : aggrPipeline[i].stage = stage}

\* C18: the plan of every search has exactly one sort stage, it comes after the
\* group stage, and it is the explicit sort of the filter when one is given,
\* else creation timestamp descending when a range is given, else dps
\* descending.
C18_OneSortByPrecedence ==
    \A c \in Callers :
        HasPlan(calls[c]) =>
            LET plan == calls[c].aggrPipeline IN
            /\ Cardinality(StagesOf(plan, "$sort")) = 1
            /\ \A i \in StagesOf(plan, "$sort") :
                  /\ \A g \in StagesOf(plan, "$group") : g < i
                  /\ plan[i] = ExpectedSort(calls[c].filter)

\* C19: the plan a search executes against the store has no limit stage.
C19_NoLimitStage ==
    \A c \in Callers :
        HasPlan(calls[c]) => StagesOf(calls[c].aggrPipeline, "$limit") = {}

-----------------------------------------------------------------------------
(* Properties of the errors, of the unique-entity cache and of createLog's  *)
(* cache write                                                              *)

\* C14: when a store or cache call of an operation fails, the operation ends in
\* an exception whose message is not the message of the underlying failure.
C14_FailureMessageGeneric ==
    \A c \in Callers :
        (calls[c].pc = "done" /\ calls[c].io = "fail")
            => /\ calls[c].result.form = "exception"
               /\ calls[c].result.message # IoError.message

\* C15: the uniqueEntities entries are keyed by the set of types: no two
\* entries are for the same set, and a call that finds no entry under its key
\* finds none for its set of types at all.
C15_OneEntryPerTypeSet ==
    /\ \A k \in DOMAIN cache.uniqueEntities, l \in DOMAIN cache.uniqueEntities :
          Range(k) = Range(l) => k = l
    /\ \A c \in Callers :
          (calls[c].op = "getUniqueEntities" /\ calls[c].pc = "aggregate")
              => ~\E k \in DOMAIN cache.uniqueEntities : Range(k) = Range(calls[c].types)

\* The cache write w lands in this step.
Lands(w) == Settles(w) /\ cache' = RedisSet(cache, w.part, w.key, w.val)

\* C20: the write of log:<id> that createLog started without awaiting never
\* lands after a deleteLog(id), begun after createLog returned, has completed.
C20_CreateWriteNotAfterDelete ==
    [][\A w \in pending :
          (w.part = "log" /\ Lands(w))
              => ~\E d \in Callers :
                    /\ IsDelete(calls[d]) /\ calls[d].pc = "done" /\ calls[d].result = Void
                    /\ calls[d].afterCreate /\ LogKey(calls[d].id) = w.key]_vars

-----------------------------------------------------------------------------
(* Properties of validateLog *)

Validated(call) == call.op = "validateLog" /\ call.pc = "done"

HasPlayer(log) == \E i \in DOMAIN log.entities : log.entities[i].type = "PLAYER"

\* C16: validateLog never returns successfully for a log with no entity of type
\* PLAYER: it ends in an exception of status 400, which is the no-players error
\* when the structural validation found nothing.
C16_NoPlayerRejected ==
    \A c \in Callers :
        (Validated(calls[c]) /\ ~HasPlayer(calls[c].log))
            => /\ calls[c].result.form = "exception"
               /\ calls[c].result.status = 400
               /\ ((calls[c].io = "ok" /\ calls[c].errors = << >>)
                     => calls[c].result.message = "No players found in log")

\* Reached: a structurally valid log whose entities are supported bosses only
\* has been rejected for having no player.
C16_Witness ==
    \E c \in Callers :
        /\ Validated(calls[c]) /\ calls[c].io = "ok" /\ calls[c].errors = << >>
        /\ Len(calls[c].log.entities) > 0
        /\ \A i \in DOMAIN calls[c].log.entities :
              calls[c].log.entities[i].type # "PLAYER" /\ calls[c].log.entities[i].npcId \in supportedBosses
        /\ calls[c].result = Exception(400, "No players found in log")

\* C17: a structurally valid log with a PLAYER is rejected when one of its
\* non-PLAYER entities has an npcId outside the registry, and the message names
\* the npcId of the first such entity in list order; it is accepted when all
\* its non-PLAYER npcIds are in the registry.
C17_UnsupportedBossNamed ==
    \A c \in Callers :
        (Validated(calls[c]) /\ calls[c].io = "ok" /\ calls[c].errors = << >> /\ HasPlayer(calls[c].log))
            => LET es == calls[c].log.entities
                   outside == {i \in DOMAIN es : es[i].type # "PLAYER" /\ es[i].npcId \notin supportedBosses}
               IN IF outside = {} THEN calls[c].result = Void
                  ELSE /\ calls[c].result.form = "exception"
                       /\ calls[c].result.status = 400
                       /\ \E i \in outside :
                             /\ \A j \in outside : i <= j
                             /\ calls[c].result.message = NotSupported(es[i].npcId)

\* Reached: a log with a player and two entities outside the registry has been
\* rejected with the npcId of the first of the two.
C17_Witness ==
    \E c \in Callers :
        /\ Validated(calls[c]) /\ calls[c].io = "ok" /\ calls[c].errors = << >>
        /\ HasPlayer(calls[c].log)
        /\ \E i, j \in DOMAIN calls[c].log.entities :
              /\ i < j
              /\ calls[c].log.entities[i].npcId = 9 /\ calls[c].log.entities[j].npcId = 8
        /\ calls[c].result = Exception(400, "9 is not a supported boss")

====
